---------------------------- MODULE Spec2Model ----------------------------
(***************************************************************************)
(* Model of the ball simulator's core: the chunked tile store, the ball    *)
(* registry and the four-phase tick (Simulation::sim_step folded over Up,  *)
(* Right, Left, Down by the "full update" button).                         *)
(*                                                                         *)
(* sim.rs names two tiles Tile::Duplicate and Tile::Filter; tiles.rs, and  *)
(* the tool palette of sim.rs (codes 0..8), know them as DuplicateH (code  *)
(* 6) and FilterR (code 7).  The model uses the names of tiles.rs; every   *)
(* other variant of tiles.rs (Empty, FilterU, FilterD, FilterL,            *)
(* DuplicateV) reaches the `_ => false` arm of the eligibility match.      *)
(***************************************************************************)
EXTENDS Integers, Sequences, FiniteSets

VARIABLES
    chunks,             \* Simulation.chunks : ChunkPosition -> Chunk
    balls,              \* Simulation.balls  : BallPosition -> bool
    pc,                 \* where the program is: "idle", "scan", "loop", "ticked", "panicked"
    dir,                \* direction of the sim_step call in progress
    dont_move,          \* fold accumulator `moved` (sim_step's dont_move)
    duplicated,         \* fold accumulator `dup`   (sim_step's duplicated)
    balls_to_update,    \* the work stack of the sim_step call in progress
    balls_to_remove,    \* positions the scan of this call removed
    balls_to_duplicate, \* pending (position, state) insertions of this call
    failed_holds,       \* failed_holds of the sim_step call in progress
    ticks,              \* number of full updates started so far
    balls0,             \* history: the registry when the current full update began
    origin,             \* history: the registry as of the latest placement
    moves,              \* history: per token (by position), moves made in this full update
    arrived,            \* history: cells entered by a move in the current sim_step call
    call,               \* history: the latest call of a store or registry method, with its result
    phase0,             \* history: the registry when the current sim_step call began
    from,               \* history: per token (by position), its cell when the full update began
    tried               \* history: positions popped by the loop of the current sim_step call

vars == <<chunks, balls, pc, dir, dont_move, duplicated, balls_to_update,
          balls_to_remove, balls_to_duplicate, failed_holds, ticks, balls0,
          origin, moves, arrived, call, phase0, from, tried>>

-----------------------------------------------------------------------------
(* Bounds of the exploration *)

\* edits touch Width cells of the row y = 0 or Width cells of the column x = 0
Width == 2
\* full updates per behaviour
MaxTicks == 1
\* cells of the line worlds (movers, Hold and Block tiles along one axis)
LineLen == 3
\* longest row of Right tiles of the single-ball worlds, and their full updates
MaxRow == 3
RowTicks == 3

-----------------------------------------------------------------------------
(* tiles.rs *)

Tile == {"Up", "Down", "Left", "Right", "Hold", "Block", "DuplicateH",
         "FilterR", "Destroy", "Empty", "FilterU", "FilterD", "FilterL",
         "DuplicateV"}

\* impl From<Tile> for u8
TileCode(t) ==
    CASE t = "Up" -> 0
      [] t = "Down" -> 1
      [] t = "Left" -> 2
      [] t = "Right" -> 3
      [] t = "Hold" -> 4
      [] t = "Block" -> 5
      [] t = "DuplicateH" -> 6
      [] t = "FilterR" -> 7
      [] t = "Destroy" -> 8
      [] t = "Empty" -> 9
      [] t = "FilterU" -> 10
      [] t = "FilterD" -> 11
      [] t = "FilterL" -> 12
      [] t = "DuplicateV" -> 13

\* mutant: a decoder that knows only the first nine codes
TileFromCodeNine(c) ==
    CASE c = 0 -> "Up"
      [] c = 1 -> "Down"
      [] c = 2 -> "Left"
      [] c = 3 -> "Right"
      [] c = 4 -> "Hold"
      [] c = 5 -> "Block"
      [] c = 6 -> "DuplicateH"
      [] c = 7 -> "FilterR"
      [] c = 8 -> "Destroy"
      [] OTHER -> "Err"

\* impl TryFrom<u8> for Tile; "Err" stands for Err(())
TileFromCode(c) ==
    CASE c = 0 -> "Up"
      [] c = 1 -> "Down"
      [] c = 2 -> "Left"
      [] c = 3 -> "Right"
      [] c = 4 -> "Hold"
      [] c = 5 -> "Block"
      [] c = 6 -> "DuplicateH"
      [] c = 7 -> "FilterR"
      [] c = 8 -> "Destroy"
      [] c = 9 -> "Empty"
      [] c = 10 -> "FilterU"
      [] c = 11 -> "FilterD"
      [] c = 12 -> "FilterL"
      [] c = 13 -> "DuplicateV"
      [] OTHER -> "Err"

\* the tiles the tool window offers: (0_u8..9_u8).filter_map(try_into)
Palette == {TileFromCode(c) : c \in 0..8}

-----------------------------------------------------------------------------
(* chunk.rs and the chunk store of sim.rs *)

CHUNK_SIZE == 32

\* mutant: the quotient of `/`, which rounds towards zero
DivTruncate(a, s) == IF a >= 0 THEN a \div s ELSE -((-a) \div s)

\* i32::div_euclid and i32::rem_euclid for the positive divisor CHUNK_SIZE
DivEuclid(a, s) == IF a >= 0 THEN a \div s ELSE -(((-a) + s - 1) \div s)
RemEuclid(a, s) == a - s * DivEuclid(a, s)

ChunkOf(pos) == <<DivEuclid(pos[1], CHUNK_SIZE), DivEuclid(pos[2], CHUNK_SIZE)>>
LocalOf(pos) == <<RemEuclid(pos[1], CHUNK_SIZE), RemEuclid(pos[2], CHUNK_SIZE)>>

\* the index Chunk::set_tile and Chunk::get_tile compute into `data`
ChunkIndex(local) == local[1] + (CHUNK_SIZE - local[2] - 1) * CHUNK_SIZE

\* every chunk is created by from_fn(|_| Tile::Down): `data` is kept as the
\* function from the indices whose code differs from that fill to their code
FillCode == TileCode("Down")
NewChunk == [i \in {} |-> FillCode]

ChunkGet(data, local) ==
    IF ChunkIndex(local) \in DOMAIN data THEN data[ChunkIndex(local)] ELSE FillCode

ChunkSet(data, local, code) ==
    LET i == ChunkIndex(local)
        D == IF code = FillCode THEN DOMAIN data \ {i} ELSE DOMAIN data \cup {i}
    IN  [j \in D |-> IF j = i THEN code ELSE data[j]]

\* mutant: a read that takes an absent chunk for a zeroed one (Chunk::default)
TileAtZeroed(cs, pos) ==
    IF ChunkOf(pos) \in DOMAIN cs
    THEN LET t == TileFromCode(ChunkGet(cs[ChunkOf(pos)], LocalOf(pos)))
         IN  IF t = "Err" THEN "Down" ELSE t
    ELSE TileFromCode(0)

\* Simulation::get_tile on a store cs
TileAt(cs, pos) ==
    IF ChunkOf(pos) \in DOMAIN cs
    THEN LET t == TileFromCode(ChunkGet(cs[ChunkOf(pos)], LocalOf(pos)))
         IN  IF t = "Err" THEN "Down" ELSE t
    ELSE "Down"

get_tile(pos) == TileAt(chunks, pos)

\* mutant: a read through entry(..).or_insert(..), as set_tile has it
StoreAfterGetOrInsert(cs, pos) ==
    [d \in DOMAIN cs \cup {ChunkOf(pos)} |-> IF d \in DOMAIN cs THEN cs[d] ELSE NewChunk]

\* the store a call of Simulation::get_tile leaves: it borrows `&self` and
\* looks the chunk up with `get`
StoreAfterGet(cs, pos) == cs

\* the store after get_tile was called for every position of a set
RECURSIVE StoreAfterReads(_, _)
StoreAfterReads(cs, read) ==
    IF read = {} THEN cs
    ELSE LET p == CHOOSE p \in read : TRUE
         IN  StoreAfterReads(StoreAfterGet(cs, p), read \ {p})

\* mutant: a write that puts a fresh chunk in place of the one it found
StoreSetReplace(cs, pos, tile) ==
    LET c == ChunkOf(pos)
    IN  [d \in DOMAIN cs \cup {c} |->
            IF d = c THEN ChunkSet(NewChunk, LocalOf(pos), TileCode(tile)) ELSE cs[d]]

\* Simulation::set_tile on a store cs
StoreSet(cs, pos, tile) ==
    LET c == ChunkOf(pos)
        old == IF c \in DOMAIN cs THEN cs[c] ELSE NewChunk
    IN  [d \in DOMAIN cs \cup {c} |->
            IF d = c THEN ChunkSet(old, LocalOf(pos), TileCode(tile)) ELSE cs[d]]

-----------------------------------------------------------------------------
(* the ball registry *)

NoBalls == [p \in {} |-> FALSE]

\* mutant: an insertion that keeps the entry it finds (entry().or_insert)
InsertIfAbsent(bs, pos, on) ==
    [p \in DOMAIN bs \cup {pos} |-> IF p \in DOMAIN bs THEN bs[p] ELSE on]

\* HashMap::insert
Insert(bs, pos, on) ==
    [p \in DOMAIN bs \cup {pos} |-> IF p = pos THEN on ELSE bs[p]]

\* mutant: a move that leaves the token on the cell it left as well
RemoveNothing(bs, pos) == bs

\* HashMap::remove
Remove(bs, pos) == [p \in DOMAIN bs \ {pos} |-> bs[p]]

\* Simulation::get_ball; "None" stands for Option::None
get_ball(pos) == IF pos \in DOMAIN balls THEN balls[pos] ELSE "None"

-----------------------------------------------------------------------------
(* Simulation::sim_step *)

Directions == {"Up", "Down", "Left", "Right"}

\* next_pos of the resolution loop
NextPos(pos, d) ==
    CASE d = "Up" -> <<pos[1], pos[2] + 1>>
      [] d = "Down" -> <<pos[1], pos[2] - 1>>
      [] d = "Left" -> <<pos[1] - 1, pos[2]>>
      [] d = "Right" -> <<pos[1] + 1, pos[2]>>

\* the arms of `match (tile, dir)` that yield true
Matches(tile, d, on) ==
    \/ tile = "Up" /\ d = "Up"
    \/ tile = "Down" /\ d = "Down"
    \/ tile = "Left" /\ d = "Left"
    \/ tile = "Right" /\ d = "Right"
    \/ tile = "FilterR" /\ d = "Left" /\ ~on
    \/ tile = "FilterR" /\ d = "Right" /\ on
    \/ tile = "DuplicateH" /\ d \in {"Left", "Right"}

\* mutant: the scan without the dont_move guard
UnsettledAlways(pos, settled) == TRUE

\* the guard `!dont_move.contains(&pos.position)` in front of the match
Unsettled(pos, settled) == pos \notin settled

\* mutant: a Destroy arm that queues the token it removes as well
EligibleWithDestroyed(bs, cs, d, settled) ==
    {p \in DOMAIN bs :
        /\ Unsettled(p, settled)
        /\ (Matches(TileAt(cs, p), d, bs[p]) \/ TileAt(cs, p) = "Destroy")}

\* positions pushed on balls_to_update by the scan
Eligible(bs, cs, d, settled) ==
    {p \in DOMAIN bs : Unsettled(p, settled) /\ Matches(TileAt(cs, p), d, bs[p])}

\* entries pushed on balls_to_duplicate by the scan
ToDuplicate(bs, cs, d, settled, spent) ==
    {<<p, bs[p]>> : p \in {q \in DOMAIN bs :
        /\ Unsettled(q, settled)
        /\ TileAt(cs, q) = "DuplicateH"
        /\ d \in {"Left", "Right"}
        /\ q \notin spent}}

\* mutant: the Destroy arm matching one direction only
ToRemoveDownOnly(bs, cs, d, settled) ==
    {p \in DOMAIN bs : Unsettled(p, settled) /\ TileAt(cs, p) = "Destroy" /\ d = "Down"}

\* positions pushed on balls_to_remove by the scan
ToRemove(bs, cs, d, settled) ==
    {p \in DOMAIN bs : Unsettled(p, settled) /\ TileAt(cs, p) = "Destroy"}

\* mutant: the comparisons of sort_by with their operands swapped
SortKeyReversed(pos, d) ==
    CASE d = "Up" -> -pos[2]
      [] d = "Down" -> pos[2]
      [] d = "Left" -> pos[1]
      [] d = "Right" -> -pos[1]

\* the key balls_to_update.sort_by orders by, ascending
SortKey(pos, d) ==
    CASE d = "Up" -> pos[2]
      [] d = "Down" -> -pos[2]
      [] d = "Left" -> -pos[1]
      [] d = "Right" -> pos[1]

\* The sequences sort_by can leave in balls_to_update: the scan pushes the
\* eligible positions in the HashMap's iteration order, which is arbitrary,
\* and the sort is stable, so every key-sorted arrangement can come out.
RECURSIVE SortedStacks(_, _)

\* mutant: the scan without the sort, the stack in iteration order
RECURSIVE AnyStacks(_, _)
AnyStacks(S, d) ==
    IF S = {} THEN {<<>>}
    ELSE UNION {{Append(s, p) : s \in AnyStacks(S \ {p}, d)} : p \in S}

SortedStacks(S, d) ==
    IF S = {} THEN {<<>>}
    ELSE UNION {{Append(s, p) : s \in SortedStacks(S \ {p}, d)} :
                p \in {q \in S : \A r \in S : SortKey(r, d) <= SortKey(q, d)}}

\* mutant: a move that does not look whether the next cell is taken
VacantAlways(bs, pos) == TRUE

\* `!self.balls.contains_key(&next_pos)`
Vacant(bs, pos) == pos \notin DOMAIN bs

\* balls_to_duplicate.into_iter().for_each(insert)
ApplyDuplicates(bs, dups) ==
    [p \in DOMAIN bs \cup {e[1] : e \in dups} |->
        IF \E e \in dups : e[1] = p
        THEN (CHOOSE e \in dups : e[1] = p)[2]
        ELSE bs[p]]

Phases == <<"Up", "Right", "Left", "Down">>

\* the direction the fold hands to the next sim_step call ("None": fold over)
NextPhase(d) ==
    CASE d = "Up" -> "Right"
      [] d = "Right" -> "Left"
      [] d = "Left" -> "Down"
      [] d = "Down" -> "None"

-----------------------------------------------------------------------------
(* Actions *)

\* the cells edits may touch: a row and a column through the origin
Row(n) == {<<x, 0>> : x \in 0..(n - 1)}
Column(n) == {<<0, y>> : y \in 0..(n - 1)}
Cells == Row(Width) \cup Column(Width)

\* the explored worlds keep every placed tile and ball on one of the two
Touched(cs, bs) == {p \in Cells : TileAt(cs, p) # "Down"} \cup DOMAIN bs
OnOneAxis(S) == S \subseteq Row(Width) \/ S \subseteq Column(Width)

ZeroMoves(bs) == [p \in DOMAIN bs |-> 0]
Here(bs) == [p \in DOMAIN bs |-> p]

\* no method of the store or the registry has been called yet
NoCall == [op |-> "none"]

\* Simulation::new
Init ==
    /\ chunks = [c \in {<<0, 0>>} |-> NewChunk]
    /\ balls = NoBalls
    /\ pc = "idle"
    /\ dir = "None"
    /\ dont_move = {}
    /\ duplicated = {}
    /\ balls_to_update = <<>>
    /\ balls_to_remove = {}
    /\ balls_to_duplicate = {}
    /\ failed_holds = {}
    /\ ticks = 0
    /\ balls0 = NoBalls
    /\ origin = NoBalls
    /\ moves = ZeroMoves(NoBalls)
    /\ arrived = {}
    /\ tried = {}
    /\ call = NoCall
    /\ phase0 = NoBalls
    /\ from = Here(NoBalls)

\* the state between full updates that an edit leaves behind
Rested ==
    /\ pc' = "idle"
    /\ dir' = "None"
    /\ dont_move' = {}
    /\ duplicated' = {}
    /\ balls_to_update' = <<>>
    /\ balls_to_remove' = {}
    /\ balls_to_duplicate' = {}
    /\ failed_holds' = {}
    /\ balls0' = NoBalls
    /\ arrived' = {}
    /\ tried' = {}
    /\ phase0' = NoBalls

\* Simulation::set_tile, called by handle_mouse with a tile of the palette
SetTile ==
    /\ pc = "idle"
    /\ \E pos \in Cells, tile \in Palette :
          /\ OnOneAxis(Touched(chunks, balls) \cup {pos})
          /\ chunks' = StoreSet(chunks, pos, tile)
    /\ origin' = balls
    /\ moves' = ZeroMoves(balls)
    /\ from' = Here(balls)
    /\ Rested
    /\ UNCHANGED <<call, balls, ticks>>

\* Simulation::set_ball, called by handle_mouse
SetBall ==
    /\ pc = "idle"
    /\ \E pos \in Cells, on \in BOOLEAN :
          /\ OnOneAxis(Touched(chunks, balls) \cup {pos})
          /\ balls' = Insert(balls, pos, on)
    /\ origin' = balls'
    /\ moves' = ZeroMoves(balls')
    /\ from' = Here(balls')
    /\ Rested
    /\ UNCHANGED <<call, chunks, ticks>>

\* "full update" clicked: the fold starts with two empty sets
StartTickUpTo(n) ==
    /\ pc \in {"idle", "ticked"}
    /\ ticks < n
    /\ pc' = "scan"
    /\ dir' = Phases[1]
    /\ dont_move' = {}
    /\ duplicated' = {}
    /\ balls_to_update' = <<>>
    /\ balls_to_remove' = {}
    /\ balls_to_duplicate' = {}
    /\ failed_holds' = {}
    /\ ticks' = ticks + 1
    /\ balls0' = balls
    /\ moves' = ZeroMoves(balls)
    /\ arrived' = {}
    /\ tried' = {}
    /\ phase0' = balls
    /\ from' = Here(balls)
    /\ UNCHANGED <<call, chunks, balls, origin>>

StartTick == StartTickUpTo(MaxTicks)

\* sim_step up to the loop: the scan, the removals and the sort
Scan ==
    /\ pc = "scan"
    /\ balls_to_remove' = ToRemove(balls, chunks, dir, dont_move)
    /\ balls_to_duplicate' = ToDuplicate(balls, chunks, dir, dont_move, duplicated)
    /\ balls_to_update' \in SortedStacks(Eligible(balls, chunks, dir, dont_move), dir)
    /\ balls' = [p \in DOMAIN balls \ balls_to_remove' |-> balls[p]]
    /\ moves' = [p \in DOMAIN balls' |-> moves[p]]
    /\ from' = [p \in DOMAIN balls' |-> from[p]]
    /\ phase0' = balls
    /\ failed_holds' = {}
    /\ arrived' = {}
    /\ tried' = {}
    /\ pc' = "loop"
    /\ chunks' = StoreAfterReads(chunks, {p \in DOMAIN balls : Unsettled(p, dont_move)})
    /\ UNCHANGED <<call, dir, dont_move, duplicated, ticks, balls0, origin>>

\* mutant: a move that does not look at the tile of the next cell
PassableAlways(cs, pos) == TRUE

\* `self.get_tile(next_pos) != Tile::Block`
Passable(cs, pos) == TileAt(cs, pos) # "Block"

\* mutant: a push of the occupant of any tile
PushableAnyTile(cs, failed, pos) == pos \notin failed

\* `self.get_tile(next_pos.position) == Tile::Hold
\*      && !failed_holds.contains(&next_pos.position)`
Pushable(cs, failed, pos) == TileAt(cs, pos) = "Hold" /\ pos \notin failed

\* mutant: a retry that pushes the Hold occupant and forgets the token itself
RetryOccupantOnly(rest, pos, next_pos) == Append(rest, next_pos)

\* balls_to_update.push(pos); balls_to_update.push(next_pos.position)
Retry(rest, pos, next_pos) == rest \o <<pos, next_pos>>

\* one iteration of `while let Some(pos) = balls_to_update.pop()`
Step ==
    /\ pc = "loop"
    /\ balls_to_update # <<>>
    /\ LET n == Len(balls_to_update)
           pos == balls_to_update[n]
           rest == SubSeq(balls_to_update, 1, n - 1)
           next_pos == NextPos(pos, dir)
       IN  IF Vacant(balls, next_pos)
           THEN IF Passable(chunks, next_pos)
                THEN IF pos \in DOMAIN balls
                     THEN /\ balls' = Insert(Remove(balls, pos), next_pos, balls[pos])
                          /\ dont_move' = dont_move \cup {next_pos}
                          /\ duplicated' = IF get_tile(pos) = "DuplicateH"
                                           THEN duplicated \cup {pos}
                                           ELSE duplicated
                          /\ moves' = [p \in DOMAIN balls' |->
                                          IF p = next_pos THEN moves[pos] + 1 ELSE moves[p]]
                          /\ from' = [p \in DOMAIN balls' |->
                                         IF p = next_pos THEN from[pos] ELSE from[p]]
                          /\ arrived' = arrived \cup {next_pos}
                          /\ balls_to_update' = rest
                          /\ UNCHANGED <<pc, failed_holds>>
                     ELSE \* .expect("we are trying to move a ball that doesn't exist")
                          /\ pc' = "panicked"
                          /\ balls_to_update' = rest
                          /\ UNCHANGED <<balls, dont_move, duplicated, moves, arrived,
                                         failed_holds, from>>
                ELSE /\ balls_to_update' = rest
                     /\ UNCHANGED <<balls, pc, dont_move, duplicated, moves, arrived,
                                    failed_holds, from>>
           ELSE IF Pushable(chunks, failed_holds, next_pos)
                THEN /\ balls_to_update' = Retry(rest, pos, next_pos)
                     /\ UNCHANGED <<balls, pc, dont_move, duplicated, moves, arrived,
                                    failed_holds, from>>
                ELSE IF get_tile(pos) = "Hold"
                     THEN /\ failed_holds' = failed_holds \cup {pos}
                          /\ balls_to_update' = rest
                          /\ UNCHANGED <<balls, pc, dont_move, duplicated, moves, arrived, from>>
                     ELSE /\ balls_to_update' = rest
                          /\ UNCHANGED <<balls, pc, dont_move, duplicated, moves, arrived,
                                         failed_holds, from>>
    /\ tried' = tried \cup {balls_to_update[Len(balls_to_update)]}
    /\ LET pos == balls_to_update[Len(balls_to_update)]
           next_pos == NextPos(pos, dir)
           both == IF Vacant(balls, next_pos)
                   THEN Passable(chunks, next_pos)
                   ELSE ~Pushable(chunks, failed_holds, next_pos)
       IN  chunks' = StoreAfterReads(chunks, IF both THEN {next_pos, pos} ELSE {next_pos})
    /\ UNCHANGED <<call, dir, balls_to_remove, balls_to_duplicate, ticks, balls0,
                   origin, phase0>>

\* mutant: the insertion of the pending duplicates also settles them
EndPhaseSettles ==
    /\ pc = "loop"
    /\ balls_to_update = <<>>
    /\ balls' = ApplyDuplicates(balls, balls_to_duplicate)
    /\ dont_move' = dont_move \cup {e[1] : e \in balls_to_duplicate}
    /\ moves' = [p \in DOMAIN balls' |->
                    IF \E e \in balls_to_duplicate : e[1] = p THEN 0 ELSE moves[p]]
    /\ from' = [p \in DOMAIN balls' |->
                   IF \E e \in balls_to_duplicate : e[1] = p THEN p ELSE from[p]]
    /\ dir' = NextPhase(dir)
    /\ pc' = IF dir' = "None" THEN "ticked" ELSE "scan"
    /\ UNCHANGED <<call, chunks, duplicated, balls_to_update, balls_to_remove,
                   balls_to_duplicate, failed_holds, ticks, balls0, origin, arrived, tried,
                   phase0>>

\* the loop is over: the pending duplicates are inserted, sim_step returns,
\* and the fold calls sim_step with the next direction or ends
EndPhase ==
    /\ pc = "loop"
    /\ balls_to_update = <<>>
    /\ balls' = ApplyDuplicates(balls, balls_to_duplicate)
    /\ moves' = [p \in DOMAIN balls' |->
                    IF \E e \in balls_to_duplicate : e[1] = p THEN 0 ELSE moves[p]]
    /\ from' = [p \in DOMAIN balls' |->
                   IF \E e \in balls_to_duplicate : e[1] = p THEN p ELSE from[p]]
    /\ dir' = NextPhase(dir)
    /\ pc' = IF dir' = "None" THEN "ticked" ELSE "scan"
    /\ UNCHANGED <<call, chunks, dont_move, duplicated, balls_to_update, balls_to_remove,
                   balls_to_duplicate, failed_holds, ticks, balls0, origin, arrived, tried,
                   phase0>>

TickNext == StartTick \/ Scan \/ Step \/ EndPhase

Next == SetTile \/ SetBall \/ TickNext

Spec == Init /\ [][Next]_vars

-----------------------------------------------------------------------------
(* Worlds built by edits, as starting points of narrower explorations *)

\* set_tile for every cell of a layout, on the store Simulation::new leaves
RECURSIVE PaintAll(_, _, _)
PaintAll(cs, layout, todo) ==
    IF todo = {} THEN cs
    ELSE LET c == CHOOSE c \in todo : TRUE
         IN  PaintAll(StoreSet(cs, c, layout[c]), layout, todo \ {c})

Painted(layout) ==
    PaintAll([c \in {<<0, 0>>} |-> NewChunk], layout, DOMAIN layout)

\* set_ball for any choice of cells and states
Placements(C) == UNION {[S -> BOOLEAN] : S \in SUBSET C}

InitWorld(cs, bs) ==
    /\ chunks = cs
    /\ balls = bs
    /\ pc = "idle"
    /\ dir = "None"
    /\ dont_move = {}
    /\ duplicated = {}
    /\ balls_to_update = <<>>
    /\ balls_to_remove = {}
    /\ balls_to_duplicate = {}
    /\ failed_holds = {}
    /\ ticks = 0
    /\ balls0 = NoBalls
    /\ origin = bs
    /\ moves = ZeroMoves(bs)
    /\ arrived = {}
    /\ tried = {}
    /\ call = NoCall
    /\ phase0 = NoBalls
    /\ from = Here(bs)

\* line worlds: the movers of one axis, Hold and Block tiles on a row or a
\* column of LineLen cells, any balls on those cells
InitLine ==
    \E axis \in {"row", "column"} :
        LET cells == IF axis = "row" THEN Row(LineLen) ELSE Column(LineLen)
            tiles == IF axis = "row" THEN {"Right", "Left", "Hold", "Block"}
                                     ELSE {"Up", "Down", "Hold", "Block"}
        IN  \E layout \in [cells -> tiles], bs \in Placements(cells) :
                InitWorld(Painted(layout), bs)

\* The event loop runs a started full update on: every call of the fold and
\* every iteration of the loop is taken as long as one is left.
SpecLine == InitLine /\ [][TickNext]_vars /\ WF_vars(TickNext)

\* single-ball worlds: Right tiles on x in 0 .. len - 1, then one cell that is
\* untouched, Empty or Block, and one ball with state false on the row
RowLayout(len, after) ==
    [c \in {<<x, 0>> : x \in 0..len} |->
        IF c[1] < len THEN "Right" ELSE after]

InitRow ==
    \E len \in 1..MaxRow, start \in 0..(MaxRow - 1), after \in {"Down", "Empty", "Block"} :
        /\ start < len
        /\ InitWorld(Painted(RowLayout(len, after)),
                     [p \in {<<start, 0>>} |-> FALSE])

TickNextRow == StartTickUpTo(RowTicks) \/ Scan \/ Step \/ EndPhase

SpecRow == InitRow /\ [][TickNextRow]_vars

\* still worlds: the movers of one axis, Hold, Block and Empty tiles on a row
\* or a column of LineLen cells, balls of one state on any of those cells,
\* and up to StillTicks full updates
StillTicks == 2

InitStill ==
    \E axis \in {"row", "column"}, state \in BOOLEAN :
        LET cells == IF axis = "row" THEN Row(LineLen) ELSE Column(LineLen)
            tiles == IF axis = "row" THEN {"Right", "Left", "Hold", "Block", "Empty"}
                                     ELSE {"Up", "Down", "Hold", "Block", "Empty"}
        IN  \E layout \in [cells -> tiles], S \in SUBSET cells :
                InitWorld(Painted(layout), [p \in S |-> state])

TickNextStill == StartTickUpTo(StillTicks) \/ Scan \/ Step \/ EndPhase

SpecStill == InitStill /\ [][TickNextStill]_vars

\* grid worlds: Up, Right, Hold and duplicator tiles on two rows of two
\* cells, balls of one state on any of those cells
GridCells == {<<0, 0>>, <<1, 0>>, <<0, 1>>, <<1, 1>>}

InitGrid ==
    \E layout \in [GridCells -> {"Up", "Right", "Hold", "DuplicateH"}],
       S \in SUBSET GridCells, state \in BOOLEAN :
        InitWorld(Painted(layout), [p \in S |-> state])

SpecGrid == InitGrid /\ [][TickNext]_vars

\* filter worlds: one of the four filter tiles on the origin with one ball
\* on it, and Down or Empty tiles on its four neighbours
InitFilter ==
    \E tile \in {"FilterR", "FilterU", "FilterD", "FilterL"}, on \in BOOLEAN,
       around \in [{<<1, 0>>, <<-1, 0>>, <<0, 1>>, <<0, -1>>} -> {"Down", "Empty"}] :
        InitWorld(Painted([c \in DOMAIN around \cup {<<0, 0>>} |->
                              IF c = <<0, 0>> THEN tile ELSE around[c]]),
                  [p \in {<<0, 0>>} |-> on])

SpecFilter == InitFilter /\ [][TickNext]_vars

\* duplicator worlds: a horizontal or a vertical duplicator on the origin
\* with one ball on it, and Down or Block tiles on its four neighbours
Neighbours == {<<1, 0>>, <<-1, 0>>, <<0, 1>>, <<0, -1>>}

InitDuplicator ==
    \E tile \in {"DuplicateH", "DuplicateV"}, on \in BOOLEAN,
       around \in [Neighbours -> {"Down", "Block"}] :
        InitWorld(Painted([c \in Neighbours \cup {<<0, 0>>} |->
                              IF c = <<0, 0>> THEN tile ELSE around[c]]),
                  [p \in {<<0, 0>>} |-> on])

SpecDuplicator == InitDuplicator /\ [][TickNext]_vars

\* the direction that leads from a neighbour of the origin to the origin
Toward(q) == CHOOSE d \in Directions : NextPos(q, d) = <<0, 0>>

\* crossing worlds: on each neighbour of the origin the mover tile that
\* points to the origin, any tile of the palette but Block on the origin, and
\* balls on any of the neighbours
InitCross ==
    \E tile \in Palette \ {"Block"}, bs \in Placements(Neighbours) :
        InitWorld(Painted([c \in Neighbours \cup {<<0, 0>>} |->
                              IF c = <<0, 0>> THEN tile ELSE Toward(c)]),
                  bs)

SpecCross == InitCross /\ [][TickNext]_vars

-----------------------------------------------------------------------------
(* Calls of the store's and the registry's methods, one at a time *)

\* what the calls below leave alone: no full update is in progress
SimVars == <<pc, dir, dont_move, duplicated, balls_to_update, balls_to_remove,
             balls_to_duplicate, failed_holds, ticks, balls0, origin, moves,
             arrived, phase0, from, tried>>

\* world coordinates on both sides of the chunk edges around the origin
Coords == {-33, -32, -1, 0, 31, 32}
Probes == {p \in Coords \X Coords : p[1] = p[2] \/ p[2] = 0}

\* the cells the calls write, and how many of them differ from the fill
EditCells == {<<0, 0>>, <<31, 31>>, <<-1, -1>>}
MaxPainted == 2

Written(cs) == UNION {{<<c, i>> : i \in DOMAIN cs[c]} : c \in DOMAIN cs}

\* the camera: `pos` in quarters of a cell, world_viewport_size in halves of
\* a cell, so that view_size / 2.0 is a whole number of quarters
Cameras(centres, views) ==
    {[pos |-> c, view |-> v] : c \in centres, v \in views}

\* ((center - view_size / 2.0) / scale).floor() and the same with `+`
ViewLow(cam, axis, scale) == DivEuclid(cam.pos[axis] - cam.view[axis], 4 * scale)
ViewHigh(cam, axis, scale) == DivEuclid(cam.pos[axis] + cam.view[axis], 4 * scale)

\* mutant: a range without its upper end (lo..hi)
RangeExclusive(lo, hi) == lo..(hi - 1)

\* RangeInclusive<i32>: lo..=hi
RangeOf(lo, hi) == lo..hi

\* ranges[0].for_each(|x| ranges[1].for_each(|y| ..)): x outside, y inside
Enumerate(xs, ys) ==
    LET X == RangeOf(xs[1], xs[2])
        Y == RangeOf(ys[1], ys[2])
        h == Cardinality(Y)
    IN  [k \in 1..(Cardinality(X) * h) |->
            <<xs[1] + ((k - 1) \div h), ys[1] + ((k - 1) % h)>>]

\* mutant: a lookup that hands out a fresh chunk where the store has none
ChunkLookupOrNew(cs, pos) ==
    IF pos \in DOMAIN cs THEN [some |-> TRUE, chunk |-> cs[pos]]
    ELSE [some |-> TRUE, chunk |-> NewChunk]

\* self.chunks.get(&pos)
ChunkLookup(cs, pos) ==
    IF pos \in DOMAIN cs THEN [some |-> TRUE, chunk |-> cs[pos]]
    ELSE [some |-> FALSE]

\* Simulation::get_visible_chunks
VisibleChunks(cs, cam) ==
    LET all == Enumerate(<<ViewLow(cam, 1, CHUNK_SIZE), ViewHigh(cam, 1, CHUNK_SIZE)>>,
                         <<ViewLow(cam, 2, CHUNK_SIZE), ViewHigh(cam, 2, CHUNK_SIZE)>>)
        hit == SelectSeq(all, LAMBDA c : ChunkLookup(cs, c).some)
    IN  [k \in 1..Len(hit) |-> <<hit[k], ChunkLookup(cs, hit[k]).chunk>>]

\* Simulation::get_visible_balls
VisibleBalls(bs, cam) ==
    LET all == Enumerate(<<ViewLow(cam, 1, 1), ViewHigh(cam, 1, 1)>>,
                         <<ViewLow(cam, 2, 1), ViewHigh(cam, 2, 1)>>)
        hit == SelectSeq(all, LAMBDA p : p \in DOMAIN bs)
    IN  [k \in 1..Len(hit) |-> <<hit[k], bs[hit[k]]>>]

\* Simulation::set_tile with any tile
CallSetTile ==
    /\ \E pos \in EditCells, tile \in Tile :
          /\ Cardinality(Written(StoreSet(chunks, pos, tile))) <= MaxPainted
          /\ chunks' = StoreSet(chunks, pos, tile)
          /\ call' = [op |-> "set_tile", pos |-> pos, tile |-> tile,
                      chunk |-> ChunkOf(pos), local |-> LocalOf(pos)]
    /\ UNCHANGED <<balls, SimVars>>

\* Simulation::get_tile
CallGetTile ==
    /\ \E pos \in Probes :
          call' = [op |-> "get_tile", pos |-> pos, chunk |-> ChunkOf(pos),
                   local |-> LocalOf(pos), ret |-> get_tile(pos)]
    /\ UNCHANGED <<chunks, balls, SimVars>>

\* cameras on the origin and half a cell before the edge between the chunks
\* 0 and 1, one cell by 130 cells and 130 cells by one cell
ChunkCameras == Cameras({<<0, 0>>, <<126, 126>>}, {<<2, 260>>, <<260, 2>>})

\* Simulation::get_visible_chunks
CallVisibleChunks ==
    /\ \E cam \in ChunkCameras :
          call' = [op |-> "visible_chunks", cam |-> cam,
                   xs |-> <<ViewLow(cam, 1, CHUNK_SIZE), ViewHigh(cam, 1, CHUNK_SIZE)>>,
                   ys |-> <<ViewLow(cam, 2, CHUNK_SIZE), ViewHigh(cam, 2, CHUNK_SIZE)>>,
                   ret |-> VisibleChunks(chunks, cam)]
    /\ UNCHANGED <<chunks, balls, SimVars>>

StoreNext == CallSetTile \/ CallGetTile \/ CallVisibleChunks

\* a new simulation with a ball placed on the origin
InitStore ==
    InitWorld([c \in {<<0, 0>>} |-> NewChunk], [p \in {<<0, 0>>} |-> TRUE])

SpecStore == InitStore /\ [][StoreNext]_vars

-----------------------------------------------------------------------------
(* Calls of the registry's methods *)

\* the cells the calls place balls on, and how many balls the registry holds
TokenCells == {<<x, y>> : x \in -1..1, y \in -1..1}
MaxTokens == 2

\* the Option<bool> that HashMap::insert and HashMap::get return
Lookup(bs, pos) ==
    IF pos \in DOMAIN bs THEN [some |-> TRUE, val |-> bs[pos]] ELSE [some |-> FALSE]

\* Simulation::set_ball; `prev` is what HashMap::insert returns
CallSetBall ==
    /\ \E pos \in TokenCells, on \in BOOLEAN :
          /\ Cardinality(DOMAIN Insert(balls, pos, on)) <= MaxTokens
          /\ balls' = Insert(balls, pos, on)
          /\ call' = [op |-> "set_ball", pos |-> pos, on |-> on,
                      prev |-> Lookup(balls, pos)]
    /\ UNCHANGED <<chunks, SimVars>>

\* Simulation::get_ball
CallGetBall ==
    /\ \E pos \in TokenCells :
          call' = [op |-> "get_ball", pos |-> pos, ret |-> Lookup(balls, pos)]
    /\ UNCHANGED <<chunks, balls, SimVars>>

\* cameras on the origin and half a cell to its upper right, half a cell by
\* a cell and a half and the other way round
BallCameras == Cameras({<<0, 0>>, <<0, 2>>, <<2, 0>>, <<2, 2>>}, {<<2, 6>>, <<6, 2>>})

\* Simulation::get_visible_balls
CallVisibleBalls ==
    /\ \E cam \in BallCameras :
          call' = [op |-> "visible_balls", cam |-> cam,
                   xs |-> <<ViewLow(cam, 1, 1), ViewHigh(cam, 1, 1)>>,
                   ys |-> <<ViewLow(cam, 2, 1), ViewHigh(cam, 2, 1)>>,
                   ret |-> VisibleBalls(balls, cam)]
    /\ UNCHANGED <<chunks, balls, SimVars>>

RegistryNext == CallSetBall \/ CallGetBall \/ CallVisibleBalls

\* a new simulation, with or without a Block tile on the origin
InitRegistry ==
    \E cs \in {[c \in {<<0, 0>>} |-> NewChunk], Painted([c \in {<<0, 0>>} |-> "Block"])} :
        InitWorld(cs, NoBalls)

SpecRegistry == InitRegistry /\ [][RegistryNext]_vars

-----------------------------------------------------------------------------
(* The tile codec on its own *)

\* the largest u8
U8Max == 255

\* u8::from(tile)
CallEncode ==
    /\ \E tile \in Tile :
          call' = [op |-> "encode", tile |-> tile, code |-> TileCode(tile)]
    /\ UNCHANGED <<chunks, balls, SimVars>>

\* Tile::try_from(code)
CallDecode ==
    /\ \E code \in 0..U8Max :
          call' = [op |-> "decode", code |-> code, ret |-> TileFromCode(code)]
    /\ UNCHANGED <<chunks, balls, SimVars>>

CodecNext == CallEncode \/ CallDecode

SpecCodec == Init /\ [][CodecNext]_vars

-----------------------------------------------------------------------------
(* Chunks written through Chunk::set_tile, which takes any u8 *)

\* codes on both sides of the last code of a tile, and the largest one
RawCodes == {13, 14, 15, U8Max}

\* Chunk::set_tile on a chunk of the store
RawWrite ==
    /\ \E pos \in EditCells, code \in RawCodes :
          /\ ChunkOf(pos) \in DOMAIN chunks
          /\ chunks' = [chunks EXCEPT ![ChunkOf(pos)] =
                            ChunkSet(@, LocalOf(pos), code)]
          /\ call' = [op |-> "raw_write", pos |-> pos, code |-> code]
    /\ UNCHANGED <<balls, SimVars>>

RawNext == RawWrite \/ CallGetTile

SpecRaw == Init /\ [][RawNext]_vars

-----------------------------------------------------------------------------
(* Claims *)

\* C1: every resolution loop empties its work stack and the full update
\* returns: whenever a sim_step call has started, the fold eventually ends.
C1_TickReturns == (pc = "scan") ~> (pc = "ticked")

Range(seq) == {seq[i] : i \in 1..Len(seq)}

\* the position popped by the next iteration of the loop
Top == balls_to_update[Len(balls_to_update)]

\* C2: an iteration of the resolution loop that changes the registry moves
\* the popped token into a cell that held no token, and leaves every other
\* token where it was with the state it had; the moved token keeps its state.
C2_MoveIntoVacantCell ==
    [][(pc = "loop" /\ balls_to_update # <<>> /\ balls' # balls) =>
          LET next_pos == NextPos(Top, dir)
          IN  /\ next_pos \notin DOMAIN balls
              /\ DOMAIN balls' = (DOMAIN balls \ {Top}) \cup {next_pos}
              /\ balls'[next_pos] = balls[Top]
              /\ \A p \in DOMAIN balls \ {Top} : balls'[p] = balls[p]]_vars

\* C2 witness: a token has moved while another token was on the stack's line:
\* the registry holds two tokens and one of them entered its cell in this call
C2_Witness ==
    /\ pc = "loop"
    /\ Cardinality(DOMAIN balls) >= 2
    /\ \E p \in arrived : p \in DOMAIN balls /\ p \in DOMAIN balls0

CountOf(bs, on) == Cardinality({p \in DOMAIN bs : bs[p] = on})

\* no cell of any chunk holds the code of `tile`
NoTile(tile) ==
    \A c \in DOMAIN chunks : \A i \in DOMAIN chunks[c] : chunks[c][i] # TileCode(tile)

\* C3: in a world without Destroy tiles a full update lowers neither the
\* number of on-state tokens nor the number of off-state tokens.
C3_NoTokenLost ==
    (pc = "ticked" /\ NoTile("Destroy")) =>
        /\ CountOf(balls, TRUE) >= CountOf(balls0, TRUE)
        /\ CountOf(balls, FALSE) >= CountOf(balls0, FALSE)

\* C4: within one full update no token changes position more than once.
C4_AtMostOneMove == \A p \in DOMAIN moves : moves[p] <= 1

\* C5: when a sim_step call has returned, no cell with a Destroy tile that a
\* token entered during that call holds a token.
C5_DestroyedOnEntry ==
    pc \in {"scan", "ticked"} =>
        \A p \in arrived : get_tile(p) = "Destroy" => p \notin DOMAIN balls

\* C6: the scan of every sim_step call removes each unsettled token that sits
\* on a Destroy tile before the loop runs, and no position the scan removed
\* is ever on the work stack of that call.
C6_ScanRemovesDestroyed ==
    [][/\ pc = "scan" =>
            \A p \in DOMAIN balls :
                (p \notin dont_move /\ get_tile(p) = "Destroy") =>
                    (p \in balls_to_remove' /\ p \notin DOMAIN balls')
       /\ pc' = "loop" =>
            \A p \in balls_to_remove' : p \notin Range(balls_to_update')]_vars

\* C6 witness: a follower has moved into a Destroy cell that the scan of the
\* same call vacated
C6_Witness ==
    /\ pc = "loop"
    /\ \E p \in balls_to_remove : p \in arrived /\ p \in DOMAIN balls

Single(pos, on) == [p \in {pos} |-> on]
LeftOf(pos) == <<pos[1] - 1, pos[2]>>
RightOf(pos) == <<pos[1] + 1, pos[2]>>

\* the n cells from pos rightwards all hold Right tiles
RECURSIVE AllRight(_, _)
AllRight(pos, n) ==
    n = 0 \/ (get_tile(pos) = "Right" /\ AllRight(RightOf(pos), n - 1))

\* C7: a single off-state token that starts on a row of Right tiles is, after
\* N full updates, N cells to the right of its start with state false, and is
\* the only token, whenever the N cells from its start on are Right tiles
\* (the cell it reaches last is a Right tile of the row or any cell that is not
\* a Block behind the row's end).
C7_StraightLine ==
    pc \in {"idle", "ticked"} =>
        \A s \in DOMAIN origin :
            (/\ origin = Single(s, FALSE)
             /\ AllRight(s, ticks)
             /\ get_tile(<<s[1] + ticks, s[2]>>) # "Block")
            => balls = Single(<<s[1] + ticks, s[2]>>, FALSE)

\* C7 witness: three full updates have carried the token three cells along
\* the row
C7_Witness ==
    /\ pc = "ticked"
    /\ ticks = 3
    /\ \E s \in DOMAIN origin :
          /\ origin = Single(s, FALSE)
          /\ AllRight(s, ticks)
          /\ balls = Single(<<s[1] + 3, s[2]>>, FALSE)

\* the world of the end-to-end scenario: set_tile((0,0), Right) and
\* set_tile((1,0), Empty) on a new store, one off-state token at (0,0)
C8_World ==
    /\ origin = Single(<<0, 0>>, FALSE)
    /\ chunks = Painted([c \in {<<0, 0>>, <<1, 0>>} |->
                            IF c = <<0, 0>> THEN "Right" ELSE "Empty"])

\* C8 as claimed: in the scenario world the token is at (1,0) after the first
\* full update and at (2,0) after the second.
C8_SecondTickAtTwo ==
    (C8_World /\ pc = "ticked") =>
        /\ ticks = 1 => balls = Single(<<1, 0>>, FALSE)
        /\ ticks = 2 => balls = Single(<<2, 0>>, FALSE)

\* C8 as amended: in the scenario world the token is at (1,0) with state
\* false after the first full update and is still there after the second:
\* a token on an Empty tile is eligible in no phase.
C8_StaysOnEmpty ==
    (C8_World /\ pc = "ticked") =>
        /\ ticks = 1 => balls = Single(<<1, 0>>, FALSE)
        /\ ticks = 2 => balls = Single(<<1, 0>>, FALSE)

\* C8 witness: the second full update of the scenario has returned
C8_Witness == C8_World /\ pc = "ticked" /\ ticks = 2

\* the two directions of the axis a duplicator or a filter tile is declared for
AxisOf(tile) ==
    IF tile \in {"DuplicateH", "FilterR", "FilterL"} THEN {"Left", "Right"}
    ELSE {"Up", "Down"}

\* C9: a lone token on a duplicator tile, horizontal or vertical, with a
\* cell that is not a Block next to it along the duplicator's axis leaves,
\* after one full update, exactly two tokens, both of its state, on two
\* different cells.
C9_Lone(p) ==
    /\ DOMAIN balls0 = {p}
    /\ get_tile(p) \in {"DuplicateH", "DuplicateV"}
    /\ \E d \in AxisOf(get_tile(p)) : get_tile(NextPos(p, d)) # "Block"

C9_DuplicatorSingleFire ==
    pc = "ticked" =>
        \A p \in DOMAIN balls0 :
            C9_Lone(p) =>
                /\ Cardinality(DOMAIN balls) = 2
                /\ \A q \in DOMAIN balls : balls[q] = balls0[p]

\* three tokens in a line along d from b on: the back one and the front one
\* on mover tiles of direction d, the middle one on a Hold tile, and the cell
\* ahead of the front one free and not a Block
C11_Chain(b, d) ==
    LET m == NextPos(b, d)
        f == NextPos(m, d)
    IN  /\ DOMAIN balls0 = {b, m, f}
        /\ get_tile(b) = d
        /\ get_tile(m) = "Hold"
        /\ get_tile(f) = d
        /\ get_tile(NextPos(f, d)) # "Block"

\* C11: after a full update on such a chain the front token has moved one
\* cell ahead, the Hold occupant is in the registry (in the cell the front
\* token left), the back token is on the Hold cell, and these three tokens,
\* with their original states, are all the registry holds.
C11_HoldChain ==
    pc = "ticked" =>
        \A b \in DOMAIN balls0 : \A d \in Directions :
            C11_Chain(b, d) =>
                LET m == NextPos(b, d)
                    f == NextPos(m, d)
                    a == NextPos(f, d)
                IN  balls = [q \in {m, f, a} |->
                                IF q = m THEN balls0[b]
                                ELSE IF q = f THEN balls0[m] ELSE balls0[f]]

\* C11 witness: a full update has run on an upward chain whose three tokens
\* do not all have the same state
C11_Witness ==
    /\ pc = "ticked"
    /\ \E b \in DOMAIN balls0 :
          /\ C11_Chain(b, "Up")
          /\ balls0[b] # balls0[NextPos(b, "Up")]
          /\ Cardinality(DOMAIN balls) = 3

\* C12: the chunk coordinate c and the local coordinate l that get_tile and
\* set_tile use for a world coordinate w satisfy c * 32 + l = w and
\* 0 <= l < 32 on each axis, negative w included, and no other world position
\* addresses the same cell of the same chunk.
C12_CoordinateBijection ==
    call.op \in {"get_tile", "set_tile"} =>
        /\ \A i \in 1..2 :
              /\ call.chunk[i] * CHUNK_SIZE + call.local[i] = call.pos[i]
              /\ 0 <= call.local[i]
              /\ call.local[i] < CHUNK_SIZE
        /\ \A q \in Probes \ {call.pos} :
              <<ChunkOf(q), ChunkIndex(LocalOf(q))>> #
                  <<call.chunk, ChunkIndex(call.local)>>

\* C12 witness: a write at a position that is negative on both axes
C12_Witness ==
    /\ call.op = "set_tile"
    /\ call.pos = <<-1, -1>>
    /\ call.chunk = <<-1, -1>>
    /\ call.local = <<31, 31>>

\* C13: get_tile at a position whose chunk is absent, or present and never
\* written, returns Down and leaves the chunk store as it was, with the same
\* number of chunks.
C13_ReadOfUnwrittenChunk ==
    [][(/\ call'.op = "get_tile"
        /\ \/ call'.chunk \notin DOMAIN chunks
           \/ chunks[call'.chunk] = NewChunk)
       => /\ call'.ret = "Down"
          /\ chunks' = chunks
          /\ Cardinality(DOMAIN chunks') = Cardinality(DOMAIN chunks)]_vars

\* C13 witness: a read in a chunk the store does not hold, made after a
\* write had created another chunk
C13_Witness ==
    /\ call.op = "get_tile"
    /\ call.chunk \notin DOMAIN chunks
    /\ call.ret = "Down"
    /\ Cardinality(DOMAIN chunks) = 2

\* C14: after set_tile(p, t), get_tile(p) is t, get_tile(q) is what it was
\* for every other position q (the cells of a chunk the call created read
\* Down as before), and the registry is unchanged.
C14_SetThenGet ==
    [][call'.op = "set_tile" =>
          /\ TileAt(chunks', call'.pos) = call'.tile
          /\ \A q \in Probes \ {call'.pos} : TileAt(chunks', q) = TileAt(chunks, q)
          /\ balls' = balls]_vars

\* C14 witness: a write that created the chunk (-1, -1) while a cell of the
\* chunk (0, 0) held another tile and the registry held a ball
C14_Witness ==
    /\ call.op = "set_tile"
    /\ call.pos = <<-1, -1>>
    /\ call.tile = "DuplicateV"
    /\ get_tile(<<-1, -1>>) = "DuplicateV"
    /\ get_tile(<<-32, -32>>) = "Down"
    /\ get_tile(<<31, 31>>) = "Hold"
    /\ balls # NoBalls

\* C15: decoding the code of every tile gives that tile back, no two tiles
\* have the same code, and decoding a code that no tile has gives Err.
C15_CodecRoundTrip ==
    /\ call.op = "encode" =>
          /\ TileFromCode(call.code) = call.tile
          /\ \A u \in Tile \ {call.tile} : TileCode(u) # call.code
    /\ call.op = "decode" =>
          IF \E t \in Tile : TileCode(t) = call.code
          THEN call.ret \in Tile /\ TileCode(call.ret) = call.code
          ELSE call.ret = "Err"

\* C15 witness: the first code that no tile has was decoded
C15_Witness ==
    /\ call.op = "decode"
    /\ call.code = TileCode("DuplicateV") + 1
    /\ call.ret = "Err"

\* C16: a get_tile call that finds, in a chunk the store holds, a code that
\* is not the code of a tile fails fatally.
C16_InvalidCodeIsFatal ==
    (/\ call.op = "get_tile"
     /\ call.chunk \in DOMAIN chunks
     /\ TileFromCode(ChunkGet(chunks[call.chunk], call.local)) = "Err")
        => pc = "panicked"

\* C17: after set_ball(p, on) the registry holds on at p, whether or not it
\* held a ball there before; every other position holds what it held, and
\* the chunk store is unchanged.
C17_SetThenGetBall ==
    [][call'.op = "set_ball" =>
          /\ Lookup(balls', call'.pos) = [some |-> TRUE, val |-> call'.on]
          /\ \A q \in TokenCells \ {call'.pos} : Lookup(balls', q) = Lookup(balls, q)
          /\ DOMAIN balls' \ {call'.pos} = DOMAIN balls \ {call'.pos}
          /\ chunks' = chunks]_vars

\* C17 witness: a call that put the other state over the ball of a cell,
\* next to a second ball and a painted tile
C17_Witness ==
    /\ call.op = "set_ball"
    /\ call.prev.some
    /\ call.prev.val # call.on
    /\ balls[call.pos] = call.on
    /\ Cardinality(DOMAIN balls) = 2
    /\ get_tile(<<0, 0>>) = "Block"

\* C18: whenever the registry holds a ball, a method of the simulation is
\* on offer that removes the ball of one position and leaves every other
\* position and the chunk store as they are.
C18_RemoveOffered ==
    (pc = "idle" /\ balls # NoBalls) =>
        ENABLED (/\ RegistryNext \/ Next
                 /\ \E p \in DOMAIN balls : balls' = Remove(balls, p)
                 /\ chunks' = chunks)

\* C19: get_visible_balls returns, each once, exactly the pairs of a
\* position of the rectangle xs x ys (ends included) that holds a ball and
\* the state of that ball, and changes neither the registry nor the store.
C19_VisibleBalls ==
    [][call'.op = "visible_balls" =>
          LET rect == (call'.xs[1]..call'.xs[2]) \X (call'.ys[1]..call'.ys[2])
          IN  /\ Range(call'.ret) = {<<p, balls[p]>> : p \in rect \cap DOMAIN balls}
              /\ Cardinality(Range(call'.ret)) = Len(call'.ret)
              /\ balls' = balls
              /\ chunks' = chunks]_vars

\* C19 witness: of two balls the call reported one, which sits on the upper
\* end of the rectangle on both axes
C19_Witness ==
    /\ call.op = "visible_balls"
    /\ Cardinality(DOMAIN balls) = 2
    /\ Len(call.ret) = 1
    /\ call.ret[1][1] = <<call.xs[2], call.ys[2]>>

\* C20: get_visible_chunks returns exactly the chunks the store holds at the
\* chunk positions of the range xs x ys (ends included), each with its
\* current cells, and leaves the store as it was: it creates no chunk.
C20_VisibleChunks ==
    [][call'.op = "visible_chunks" =>
          LET range == (call'.xs[1]..call'.xs[2]) \X (call'.ys[1]..call'.ys[2])
          IN  /\ Range(call'.ret) = {<<c, chunks[c]>> : c \in range \cap DOMAIN chunks}
              /\ Cardinality(Range(call'.ret)) = Len(call'.ret)
              /\ chunks' = chunks]_vars

\* C20 witness: of the two chunks of the store the call returned the one in
\* range, with the tile painted in it
C20_Witness ==
    /\ call.op = "visible_chunks"
    /\ DOMAIN chunks = {<<0, 0>>, <<-1, -1>>}
    /\ Len(call.ret) = 1
    /\ call.ret[1][1] = <<0, 0>>
    /\ call.ret[1][2] = chunks[<<0, 0>>]
    /\ call.ret[1][2] # NewChunk

\* C21: from the scan of a sim_step call on, every position for which that
\* scan recorded a pending duplication is in `duplicated`, whether or not
\* the token on it then moves in that call.
C21_SpentAtScan ==
    pc = "loop" => \A e \in balls_to_duplicate : e[1] \in duplicated

\* one token, on a horizontal duplicator whose left and right cells are not
\* Blocks, when the full update began
C22_Lone(p) ==
    /\ DOMAIN balls0 = {p}
    /\ get_tile(p) = "DuplicateH"
    /\ get_tile(LeftOf(p)) # "Block"
    /\ get_tile(RightOf(p)) # "Block"

\* C22: for such a token at p, when the loop of the Right phase has ended the
\* registry holds only the original, one cell to the right of p, and the
\* duplicate is still pending; the Left phase begins with the duplicate at p,
\* not settled; and after the full update the original is one cell to the
\* right of p, the duplicate one cell to the left of p, and p holds no token.
C22_DuplicateMovesNextPhase ==
    \A p \in DOMAIN balls0 :
        C22_Lone(p) =>
            LET on == balls0[p] IN
            /\ (pc = "loop" /\ dir = "Right" /\ balls_to_update = <<>>) =>
                  /\ balls = Single(RightOf(p), on)
                  /\ balls_to_duplicate = {<<p, on>>}
            /\ (pc = "scan" /\ dir = "Left") =>
                  /\ balls = [q \in {p, RightOf(p)} |-> on]
                  /\ p \notin dont_move
            /\ pc = "ticked" => balls = [q \in {LeftOf(p), RightOf(p)} |-> on]

\* C22 witness: a full update has run on such a token and left a token on
\* each side of the duplicator
C22_Witness ==
    /\ pc = "ticked"
    /\ \E p \in DOMAIN balls0 :
          /\ C22_Lone(p)
          /\ DOMAIN balls = {LeftOf(p), RightOf(p)}
          /\ p \notin dont_move

\* C23: the scan of a phase puts an unsettled token that sits on a vertical
\* duplicator on the work stack exactly in the Up and Down phases, and one
\* that sits on a horizontal duplicator exactly in the Left and Right phases.
C23_DuplicatorAxes ==
    [][(pc = "scan" /\ pc' = "loop") =>
          \A p \in DOMAIN balls \ dont_move :
              /\ get_tile(p) = "DuplicateV" =>
                    (p \in Range(balls_to_update') <=> dir \in {"Up", "Down"})
              /\ get_tile(p) = "DuplicateH" =>
                    (p \in Range(balls_to_update') <=> dir \in {"Left", "Right"})]_vars

\* the token that was at p when the sim_step call of direction d began is
\* among the arrivals arr of that call
MovedIn(arr, d, p) == NextPos(p, d) \in arr
Moved(p) == MovedIn(arrived, dir, p)

LoopOver == pc = "loop" /\ balls_to_update = <<>>

Occurrences(seq, x) == Cardinality({i \in 1..Len(seq) : seq[i] = x})

\* the token at p, its next cell an occupied Hold cell, in the registry bs
BehindHold(bs, cs, d, p) ==
    /\ NextPos(p, d) \in DOMAIN bs
    /\ TileAt(cs, NextPos(p, d)) = "Hold"

\* C24: when the loop of a phase is over, a token whose next cell was an
\* occupied Hold cell has moved exactly if the Hold occupant has moved; if
\* that token was eligible and the occupant's own next cell holds a token
\* that has not moved, neither of the two has moved and the Hold cell is in
\* failed_holds; and no iteration of the loop pushes a cell of failed_holds
\* on the work stack again.
C24_HoldRetry ==
    [][/\ LoopOver' =>
            \A p \in DOMAIN phase0' :
                BehindHold(phase0', chunks', dir', p) =>
                    LET h == NextPos(p, dir')
                        n == NextPos(h, dir')
                    IN  /\ MovedIn(arrived', dir', p) <=> MovedIn(arrived', dir', h)
                        /\ (/\ p \notin dont_move'
                            /\ Matches(TileAt(chunks', p), dir', phase0'[p])
                            /\ n \in DOMAIN phase0'
                            /\ ~MovedIn(arrived', dir', n))
                              => /\ ~MovedIn(arrived', dir', p)
                                 /\ ~MovedIn(arrived', dir', h)
                                 /\ h \in failed_holds'
       /\ (pc = "loop" /\ pc' = "loop") =>
            \A h \in failed_holds :
                Occurrences(balls_to_update', h) <= Occurrences(balls_to_update, h)]_vars

\* C24 witness: the loop of a Right phase is over, an eligible token behind
\* an occupied Hold cell has stayed, and the Hold cell is marked failed
\* because the token ahead of its occupant has not moved
C24_Witness ==
    /\ LoopOver
    /\ dir = "Right"
    /\ \E p \in DOMAIN phase0 :
          /\ BehindHold(phase0, chunks, dir, p)
          /\ Matches(get_tile(p), dir, phase0[p])
          /\ NextPos(NextPos(p, dir), dir) \in DOMAIN phase0
          /\ NextPos(p, dir) \in failed_holds
          /\ balls = phase0

\* the place of a direction in the order of the fold
PhaseIndex(d) == CHOOSE i \in 1..Len(Phases) : Phases[i] = d

\* C25: when two or more tokens on mover tiles of different directions all
\* have the origin, empty and not a Block, as their next cell, then after the
\* full update the token whose direction comes first in the order Up, Right,
\* Left, Down is on the origin and each of the others is where it was, with
\* its state.
C25_EarlierPhaseWins ==
    (/\ pc = "ticked"
     /\ Cardinality(DOMAIN balls0) >= 2
     /\ DOMAIN balls0 \subseteq Neighbours
     /\ \A q \in DOMAIN balls0 : get_tile(q) = Toward(q)
     /\ get_tile(<<0, 0>>) # "Block")
        => LET w == CHOOSE q \in DOMAIN balls0 :
                       \A r \in DOMAIN balls0 :
                           PhaseIndex(Toward(q)) <= PhaseIndex(Toward(r))
           IN  /\ <<0, 0>> \in DOMAIN balls
               /\ from[<<0, 0>>] = w
               /\ balls[<<0, 0>>] = balls0[w]
               /\ \A q \in DOMAIN balls0 \ {w} :
                     /\ q \in DOMAIN balls
                     /\ from[q] = q
                     /\ balls[q] = balls0[q]

\* the cell k cells ahead of p in direction d
Shift(p, d, k) ==
    LET u == NextPos(<<0, 0>>, d) IN <<p[1] + k * u[1], p[2] + k * u[2]>>

\* k tokens of the registry bs on the cells from b on along d, none in
\* settled, each on the mover tile of direction d
Run(bs, cs, settled, d, b, k) ==
    \A i \in 0..(k - 1) :
        /\ Shift(b, d, i) \in DOMAIN bs
        /\ Shift(b, d, i) \notin settled
        /\ TileAt(cs, Shift(b, d, i)) = d

\* C26: the scan leaves the work stack with every position below the
\* positions that are further advanced in the phase direction, so that the
\* furthest advanced is popped first; and when the loop of the phase is over,
\* a run of k unsettled tokens on mover tiles of the phase direction whose
\* leader had an empty non-Block cell ahead has advanced by one cell as a
\* whole, while a run whose leader faced an empty Block cell or a token that
\* has not moved is where it was.
C26_LeaderFirst ==
    [][/\ (pc = "scan" /\ pc' = "loop") =>
            \A i, j \in 1..Len(balls_to_update') :
                (\E k \in 1..LineLen :
                    balls_to_update'[i] = Shift(balls_to_update'[j], dir', k)) => j < i
       /\ LoopOver' =>
            \A b \in DOMAIN phase0' : \A k \in 1..LineLen :
                Run(phase0', chunks', dont_move' \ arrived', dir', b, k) =>
                    LET a == Shift(b, dir', k) IN
                    /\ (a \notin DOMAIN phase0' /\ TileAt(chunks', a) # "Block") =>
                          \A i \in 0..(k - 1) :
                              /\ Shift(b, dir', i + 1) \in DOMAIN balls'
                              /\ MovedIn(arrived', dir', Shift(b, dir', i))
                              /\ balls'[Shift(b, dir', i + 1)] = phase0'[Shift(b, dir', i)]
                    /\ (\/ a \notin DOMAIN phase0' /\ TileAt(chunks', a) = "Block"
                        \/ a \in DOMAIN phase0' /\ ~MovedIn(arrived', dir', a)) =>
                          \A i \in 0..(k - 1) :
                              /\ ~MovedIn(arrived', dir', Shift(b, dir', i))
                              /\ Shift(b, dir', i) \in DOMAIN balls'
                              /\ balls'[Shift(b, dir', i)] = phase0'[Shift(b, dir', i)]]_vars

\* C26 witness: the loop of a Left phase is over and a run of two tokens has
\* advanced by one cell
C26_Witness ==
    /\ LoopOver
    /\ dir = "Left"
    /\ \E b \in DOMAIN phase0 :
          /\ Run(phase0, chunks, dont_move \ arrived, dir, b, 2)
          /\ Shift(b, dir, 2) \notin DOMAIN phase0
          /\ Moved(b)
          /\ Moved(Shift(b, dir, 1))
          /\ phase0[b] # phase0[Shift(b, dir, 1)]

\* C27: during a full update that began with no token on a Block tile no
\* token is on a Block tile and no move has entered one; and while the loop
\* of a phase runs, a token the scan left in the registry whose next cell
\* was an empty Block cell is at its position with its state.
C27_NoMoveIntoBlock ==
    /\ (pc \in {"scan", "loop", "ticked"} /\ \A p \in DOMAIN balls0 : get_tile(p) # "Block") =>
          /\ \A p \in DOMAIN balls : get_tile(p) # "Block"
          /\ \A p \in arrived : get_tile(p) # "Block"
    /\ pc = "loop" =>
          \A p \in DOMAIN phase0 \ balls_to_remove :
              (NextPos(p, dir) \notin DOMAIN phase0 /\ get_tile(NextPos(p, dir)) = "Block") =>
                  /\ p \in DOMAIN balls
                  /\ balls[p] = phase0[p]
                  /\ from[p] = p \/ p \in dont_move
                  /\ NextPos(p, dir) \notin DOMAIN balls

\* C27 witness: in the loop of a phase a mover is on the stack again after
\* the Hold occupant it pushed was refused the empty Block cell ahead of it
C27_Witness ==
    /\ pc = "loop"
    /\ \A p \in DOMAIN balls0 : get_tile(p) # "Block"
    /\ Len(balls_to_update) = 1
    /\ LET p == Top
           h == NextPos(p, dir)
       IN  /\ get_tile(p) = dir
           /\ p \in DOMAIN balls
           /\ h \in DOMAIN balls
           /\ get_tile(h) = "Hold"
           /\ h \notin failed_holds
           /\ get_tile(NextPos(h, dir)) = "Block"
           /\ NextPos(h, dir) \notin DOMAIN balls

\* the cell whose next cell in direction d is p
PrevPos(p, d) == Shift(p, d, -1)

\* C28: with no edits, a token placed on a Block or Empty tile is on its
\* cell with its state in every state of every later full update; a token
\* that is on a Block or Empty tile when a full update begins is on its cell
\* with its state, never having moved, in every state of that update; and
\* when a token that began a phase on a Hold tile has moved in that phase,
\* the cell directly behind it along the phase direction held a token at the
\* scan and the loop has popped that cell.
C28_StillTokens ==
    /\ \A p \in DOMAIN origin :
          get_tile(p) \in {"Block", "Empty"} =>
              /\ p \in DOMAIN balls
              /\ balls[p] = origin[p]
    /\ \A p \in DOMAIN balls0 :
          get_tile(p) \in {"Block", "Empty"} =>
              /\ p \in DOMAIN balls
              /\ balls[p] = balls0[p]
              /\ from[p] = p
              /\ moves[p] = 0
    /\ pc = "loop" =>
          \A h \in DOMAIN phase0 :
              (get_tile(h) = "Hold" /\ (Moved(h) \/ h \notin DOMAIN balls)) =>
                  /\ Moved(h)
                  /\ PrevPos(h, dir) \in tried
                  /\ PrevPos(h, dir) \in DOMAIN phase0

\* C28 witness: the second full update is over, a token placed on an Empty
\* tile is on it, and a mover placed directly behind a token on a Hold tile
\* has left its cell, which it could only after pushing that token on
C28_Witness ==
    /\ pc = "ticked"
    /\ ticks = StillTicks
    /\ \E p \in DOMAIN origin : get_tile(p) = "Empty" /\ p \in DOMAIN balls
    /\ \E h \in DOMAIN origin, d \in Directions :
          /\ get_tile(h) = "Hold"
          /\ PrevPos(h, d) \in DOMAIN origin
          /\ get_tile(PrevPos(h, d)) = d
          /\ PrevPos(h, d) \notin DOMAIN balls

\* C29: no step of a full update changes the chunk store: the chunks that
\* exist and the codes they hold, hence the tile get_tile reads at every
\* position, are the same after it as before it.
C29_StoreReadOnly ==
    [][pc' # "idle" =>
          /\ DOMAIN chunks' = DOMAIN chunks
          /\ \A c \in DOMAIN chunks : chunks'[c] = chunks[c]]_vars

\* C29 witness: a full update is over in a world with a painted tile, and a
\* token has moved into a cell of a chunk that does not exist
C29_Witness ==
    /\ pc = "ticked"
    /\ \E c \in DOMAIN chunks : chunks[c] # NewChunk
    /\ \E p \in arrived : ChunkOf(p) \notin DOMAIN chunks

\* the number of moves of one cell between two cells
Distance(p, q) ==
    (IF p[1] >= q[1] THEN p[1] - q[1] ELSE q[1] - p[1])
    + (IF p[2] >= q[2] THEN p[2] - q[2] ELSE q[2] - p[2])

\* C30: in a world with no Destroy tile and no duplicator tile, in every
\* state of a full update and when it is over, the registry holds as many
\* on-state and as many off-state tokens as when the update began, the
\* tokens are the tokens of then, one to one, each with the state it had,
\* and each is on its old cell or as many cells away from it as it has made
\* moves of one cell at most.
C30_TokensConserved ==
    (/\ pc \in {"scan", "loop", "ticked"}
     /\ NoTile("Destroy") /\ NoTile("DuplicateH") /\ NoTile("DuplicateV")) =>
        /\ CountOf(balls, TRUE) = CountOf(balls0, TRUE)
        /\ CountOf(balls, FALSE) = CountOf(balls0, FALSE)
        /\ {from[p] : p \in DOMAIN balls} = DOMAIN balls0
        /\ \A p, q \in DOMAIN balls : from[p] = from[q] => p = q
        /\ \A p \in DOMAIN balls :
              /\ balls[p] = balls0[from[p]]
              /\ Distance(p, from[p]) <= moves[p]
              /\ moves[p] = 0 => p = from[p]

\* C30 witness: a full update is over in a world without Destroy and
\* duplicator tiles in which two tokens of different states have moved
C30_Witness ==
    /\ pc = "ticked"
    /\ NoTile("Destroy") /\ NoTile("DuplicateH") /\ NoTile("DuplicateV")
    /\ \E p, q \in DOMAIN balls :
          /\ balls[p] /\ ~balls[q]
          /\ from[p] # p
          /\ from[q] # q

\* C32: the `expect` of the move never fails, and while the loop of a phase
\* runs every position on the work stack, the one popped next included,
\* holds a token and is on the stack once.
C32_PoppedHoldsToken ==
    /\ pc # "panicked"
    /\ pc = "loop" =>
          \A i \in 1..Len(balls_to_update) :
              /\ balls_to_update[i] \in DOMAIN balls
              /\ \A j \in 1..Len(balls_to_update) :
                    balls_to_update[i] = balls_to_update[j] => i = j

\* C32 witness: the loop is about to pop a pushed Hold cell, with the token
\* that pushed it, popped once already, pushed back right below it
C32_Witness ==
    /\ pc = "loop"
    /\ Len(balls_to_update) >= 2
    /\ get_tile(Top) = "Hold"
    /\ balls_to_update[Len(balls_to_update) - 1] \in tried
    /\ NextPos(balls_to_update[Len(balls_to_update) - 1], dir) = Top

-----------------------------------------------------------------------------
(* The full update as a function of the store and the registry *)

\* the loop of sim_step run to its end from a registry, a stack and the sets
RECURSIVE LoopResult(_, _, _, _, _, _, _)
LoopResult(bs, stack, settled, spent, failed, cs, d) ==
    IF stack = <<>>
    THEN [balls |-> bs, moved |-> settled, dup |-> spent, ok |-> TRUE]
    ELSE LET n == Len(stack)
             pos == stack[n]
             rest == SubSeq(stack, 1, n - 1)
             next_pos == NextPos(pos, d)
         IN  IF Vacant(bs, next_pos)
             THEN IF Passable(cs, next_pos)
                  THEN IF pos \in DOMAIN bs
                       THEN LoopResult(Insert(Remove(bs, pos), next_pos, bs[pos]), rest,
                                       settled \cup {next_pos},
                                       IF TileAt(cs, pos) = "DuplicateH"
                                       THEN spent \cup {pos} ELSE spent,
                                       failed, cs, d)
                       ELSE [balls |-> bs, moved |-> settled, dup |-> spent, ok |-> FALSE]
                  ELSE LoopResult(bs, rest, settled, spent, failed, cs, d)
             ELSE IF Pushable(cs, failed, next_pos)
                  THEN LoopResult(bs, Retry(rest, pos, next_pos), settled, spent, failed, cs, d)
                  ELSE IF TileAt(cs, pos) = "Hold"
                       THEN LoopResult(bs, rest, settled, spent, failed \cup {pos}, cs, d)
                       ELSE LoopResult(bs, rest, settled, spent, failed, cs, d)

\* one call of sim_step, its scan stacking the eligible positions in one of
\* the orders the sort allows
SimStepResult(st, cs, d) ==
    IF ~st.ok THEN st
    ELSE LET removed == ToRemove(st.balls, cs, d, st.moved)
             dups == ToDuplicate(st.balls, cs, d, st.moved, st.dup)
             stack == CHOOSE s \in SortedStacks(Eligible(st.balls, cs, d, st.moved), d) : TRUE
             kept == [p \in DOMAIN st.balls \ removed |-> st.balls[p]]
             r == LoopResult(kept, stack, st.moved, st.dup, {}, cs, d)
         IN  [balls |-> IF r.ok THEN ApplyDuplicates(r.balls, dups) ELSE r.balls,
              moved |-> r.moved, dup |-> r.dup, ok |-> r.ok]

\* the fold of the "full update" button over the first k phases
RECURSIVE FoldResult(_, _, _)
FoldResult(cs, bs, k) ==
    IF k = 0 THEN [balls |-> bs, moved |-> {}, dup |-> {}, ok |-> TRUE]
    ELSE SimStepResult(FoldResult(cs, bs, k - 1), cs, Phases[k])

TickResult(cs, bs) == FoldResult(cs, bs, Len(Phases))

\* C31: whatever order the scans of a full update stacked positions of equal
\* sort key in, when the update is over the registry is the one the full
\* update yields as a function of the store and the registry it began with.
C31_TickIsFunction ==
    pc = "ticked" =>
        /\ TickResult(chunks, balls0).ok
        /\ balls = TickResult(chunks, balls0).balls

\* C31 witness: a full update is over in which the Up phase stacked two
\* movers of equal sort key on different columns, each behind a token on a
\* Hold tile, so that the scan had two orders and the loop retried both
C31_Witness ==
    /\ pc = "ticked"
    /\ \E p, q \in DOMAIN balls0 :
          /\ p # q
          /\ SortKey(p, "Up") = SortKey(q, "Up")
          /\ get_tile(p) = "Up" /\ get_tile(q) = "Up"
          /\ \A r \in {p, q} :
                /\ NextPos(r, "Up") \in DOMAIN balls0
                /\ get_tile(NextPos(r, "Up")) = "Hold"
                /\ r \notin DOMAIN balls

Opposite(d) ==
    CASE d = "Up" -> "Down"
      [] d = "Down" -> "Up"
      [] d = "Left" -> "Right"
      [] d = "Right" -> "Left"

\* C10: a lone token on a filter tile, of any of the four orientations, with
\* no Block next to it along the filter's axis makes exactly one move in a
\* full update, one cell along that axis, keeping its state, and the full
\* update of the same world with the token in the other state moves that
\* token one cell to the opposite side.
C10_Lone(p) ==
    /\ DOMAIN balls0 = {p}
    /\ get_tile(p) \in {"FilterR", "FilterU", "FilterD", "FilterL"}
    /\ \A d \in AxisOf(get_tile(p)) : get_tile(NextPos(p, d)) # "Block"

C10_FilterSorts ==
    pc = "ticked" =>
        \A p \in DOMAIN balls0 :
            C10_Lone(p) =>
                \E d \in AxisOf(get_tile(p)) :
                    /\ balls = Single(NextPos(p, d), balls0[p])
                    /\ moves[NextPos(p, d)] = 1
                    /\ TickResult(chunks, Single(p, ~balls0[p])).balls
                         = Single(NextPos(p, Opposite(d)), ~balls0[p])

=============================================================================
